---- MODULE Spec2Model ----
(***************************************************************************)
(* A model of main.py: CrawlerScheduler (count query, page partitioning,   *)
(* the thread pool and its futures) and DownloadWorker (page fetch, post   *)
(* conversion, media download, Markdown file write).                       *)
(*                                                                         *)
(* Text is a sequence of tokens, each token a tuple of strings: a tag      *)
(* <<"<p>">>, a word <<"Hello">>, a blank <<" ">>, a newline <<"\n">>, an   *)
(* image tag <<"<img", seg1, ..., segN>> whose tail is src.split("/"), an  *)
(* embedded-file reference <<"![[", name>>.  A URL is the sequence of its   *)
(* "/"-separated segments; a timestamp is the sequence of its " "-separated *)
(* words.                                                                  *)
(*                                                                         *)
(* The log keeps WARNING and ERROR records and the final INFO record of    *)
(* schedule_tasks, as a set: the order of log lines is not modelled.       *)
(***************************************************************************)
EXTENDS Integers, Sequences, FiniteSets, TLC

\* ------------------------------------------------------------------ bounds
\* settings.THREADS: size of the worker pool.
THREADS == 2

\* settings.API_READ_NUM: page size.
API_READ_NUM == 2

\* settings.API_READ_START: first offset.
API_READ_START == 0

\* Largest post count the count query reports.
MaxTotal == API_READ_NUM + 1

\* self.names
Names == <<"b1", "b2">>

\* Longest generated body handed to handle_images.
MaxBodyLen == 6


\* ------------------------------------------------------ the remote blogs
\* "https://x/y/<file>".split("/")
Url(file) == <<"https:", "", "x", "y", file>>

\* An <img src="..."> tag of a post body.
Img(file) == <<"<img">> \o Url(file)

NoPhotoUrl == [shape |-> "absent", urls |-> <<>>]

\* The fields of one parsed <post> element.  photoUrl.shape is what xmltodict
\* makes of the <photo-url> children: "list" for several, "dict" for exactly
\* one (collapsed to a bare object), "absent" for none.  photoset is the
\* sequence of the photoset's photos (<<>>: no photoset).  tag is the text of
\* the <tag> child as its whitespace-separated words.
Post(id, type, day, time, slug, body, photoUrl, photoset) ==
    [id |-> id, type |-> type, slug |-> slug,
     dateGmt |-> <<day, time, "GMT">>,
     date |-> <<"Thu,", day, time>>,
     urlWithSlug |-> <<"https://blog/post", id, slug>>,
     title |-> <<"T", id>>,
     body |-> body, photoUrl |-> photoUrl, photoset |-> photoset,
     tag |-> <<"art">>]

PhotoUrls(file) ==
    [shape |-> "list", urls |-> <<Url(file \o "_1280.jpg"), Url(file \o "_500.jpg")>>]

\* What the read endpoint serves for each blog, first offset first.
RemotePosts(name) ==
    IF name = "b1" THEN
      << Post("101", "Regular", "2020-01-02", "10:00:00", "hello",
              << <<"<p>">>, <<"Hello">>, <<" ">>, Img("cat.png"), <<" ">>,
                 <<"world">>, <<"</p>">> >>,
              NoPhotoUrl, <<>>),
         Post("102", "Photo", "2020-01-03", "11:00:00", "",
              << <<"dog">> >>, PhotoUrls("dog"), <<>>),
         Post("103", "Link", "2020-01-03", "12:00:00", "",
              <<>>, NoPhotoUrl, <<>>) >>
    ELSE
      << Post("203", "Photo", "2020-02-03", "09:00:00", "set",
              << <<"two">> >>, PhotoUrls("s1"), <<PhotoUrls("s1"), PhotoUrls("s2")>>),
         Post("202", "Conversation", "2020-02-02", "09:00:00", "chat",
              << <<"A:">>, <<" ">>, <<"hi">> >>, NoPhotoUrl, <<>>),
         Post("201", "Photo", "2020-02-01", "09:00:00", "pic",
              <<>>, [shape |-> "dict", urls |-> <<Url("one_1280.jpg")>>], <<>>) >>

\* The posts the endpoint returns for ?num=<num>&start=<start>.
RemotePage(name, num, start) ==
    LET all == RemotePosts(name)
        last == IF start + num < Len(all) THEN start + num ELSE Len(all)
    IN  IF start >= Len(all) THEN <<>> ELSE SubSeq(all, start + 1, last)

\* --------------------------------------------------------- pure functions
NL == <<"\n">>

\* Python's range(start, stop, step) for step > 0, as a sequence.
RECURSIVE Range(_, _, _)
Range(start, stop, step) ==
    IF start >= stop THEN <<>>
    ELSE <<start>> \o Range(start + step, stop, step)

\* url.split("/")[-1]
LastSegment(url) == url[Len(url)]

\* save_post: the file name of a post.
Filename(post) ==
    LET date_gmt == post.dateGmt[1]
    IN  IF post.slug # "" THEN <<date_gmt, "-", post.slug, ".md">>
        ELSE <<date_gmt, ".md">>

\* target_dir / filename, with target_dir = results/<name>
MdPath(name, post) == <<"results", name>> \o Filename(post)

AttachmentDir(name) == <<"results", name, "attachments">>

\* save_post: table_fields, each with the post's value for it.
TableFields(post) ==
    << <<"url-with-slug", post.urlWithSlug>>, <<"type", <<post.type>> >>,
       <<"date-gmt", post.dateGmt>>, <<"date", post.date>> >>

\* save_post: the metadata table, one token per line.
TableRows(post) ==
    LET fields == TableFields(post)
    IN  << <<"| key | value |">>, <<"| --- | ----- |">> >>
        \o [f \in 1..Len(fields) |->
              <<"|", fields[f][1], "|">> \o fields[f][2] \o <<"|">>]

\* '\n' + ' '.join(f'#{tag}' for tag in tags)
TagStr(post) == <<NL>> \o [j \in 1..Len(post.tag) |-> <<"#", post.tag[j]>>]

\* ---- the image-relocation transform, on token sequences
IsImg(tok) == tok[1] = "<img"
IsTag(tok) == tok[1] \in {"<p>", "</p>", "<img", "<br>", "<b>", "</b>"}
IsSpace(tok) == tok \in {<<" ">>, NL}

\* Index of the first token of text at or after from whose head is in heads; 0 if none.
FirstAt(text, from, heads) ==
    LET c == {j \in from..Len(text) : text[j][1] \in heads}
    IN  IF c = {} THEN 0 ELSE CHOOSE j \in c : \A l \in c : j <= l

\* re.findall(r'<p>.*?<img.*?</p>', body, re.DOTALL), scanning from index from.
RECURSIVE FindImgParagraphs(_, _)
FindImgParagraphs(body, from) ==
    LET s == FirstAt(body, from, {"<p>"})
        g == IF s = 0 THEN 0 ELSE FirstAt(body, s + 1, {"<img"})
        e == IF g = 0 THEN 0 ELSE FirstAt(body, g + 1, {"</p>"})
    IN  IF e = 0 THEN <<>>
        ELSE <<SubSeq(body, s, e)>> \o FindImgParagraphs(body, e + 1)

\* re.findall(r'<p>.*?</p>', body, re.DOTALL): paragraphs with or without an image.
RECURSIVE FindParagraphs(_, _)
FindParagraphs(body, from) ==
    LET s == FirstAt(body, from, {"<p>"})
        e == IF s = 0 THEN 0 ELSE FirstAt(body, s + 1, {"</p>"})
    IN  IF e = 0 THEN <<>>
        ELSE <<SubSeq(body, s, e)>> \o FindParagraphs(body, e + 1)

extract_paragraphs(body) == FindParagraphs(body, 1)

extract_img_paragraphs(body) == FindImgParagraphs(body, 1)

\* The subsequence of text whose tokens satisfy keep (a set of indices).
RECURSIVE Select(_, _, _)
Select(text, keep, j) ==
    IF j > Len(text) THEN <<>>
    ELSE (IF j \in keep THEN <<text[j]>> ELSE <<>>) \o Select(text, keep, j + 1)

\* str.strip() on tokens.
Strip(text) ==
    LET solid == {j \in 1..Len(text) : ~IsSpace(text[j])}
    IN  IF solid = {} THEN <<>>
        ELSE SubSeq(text, CHOOSE j \in solid : \A l \in solid : j <= l,
                          CHOOSE j \in solid : \A l \in solid : j >= l)

\* '\n'.join(imgs)
RECURSIVE JoinLines(_)
JoinLines(imgs) ==
    IF imgs = <<>> THEN <<>>
    ELSE IF Len(imgs) = 1 THEN imgs
    ELSE <<imgs[1], NL>> \o JoinLines(Tail(imgs))

\* The images joined in front of the text instead of behind it.
MoveImgsToFront(paragraph) ==
    LET imgs == Select(paragraph, {j \in 1..Len(paragraph) : IsImg(paragraph[j])}, 1)
        paragraph_without_imgs ==
            Strip(Select(paragraph, {j \in 1..Len(paragraph) : ~IsImg(paragraph[j])}, 1))
    IN  JoinLines(imgs) \o <<NL, NL>> \o paragraph_without_imgs

\* move_imgs_to_end, for one paragraph.
MoveImgsToEnd(paragraph) ==
    LET imgs == Select(paragraph, {j \in 1..Len(paragraph) : IsImg(paragraph[j])}, 1)
        paragraph_without_imgs ==
            Strip(Select(paragraph, {j \in 1..Len(paragraph) : ~IsImg(paragraph[j])}, 1))
        text_only ==
            Strip(Select(paragraph_without_imgs,
                         {j \in 1..Len(paragraph_without_imgs) :
                             ~IsTag(paragraph_without_imgs[j])}, 1))
    IN  IF text_only = <<>> THEN <<NL, NL>> \o JoinLines(imgs)
        ELSE paragraph_without_imgs \o <<NL, NL>> \o JoinLines(imgs)

move_imgs_to_end(paragraphs) ==
    [j \in 1..Len(paragraphs) |-> MoveImgsToEnd(paragraphs[j])]

\* img_pattern of replace_img_with_markdown matches an image tag whose src
\* holds a "/" followed by a non-empty last segment.
SrcMatches(tok) == IsImg(tok) /\ Len(tok) >= 3 /\ tok[Len(tok)] # ""

\* replace_img_with_markdown, the text it returns.
replace_img_with_markdown(paragraphs) ==
    [j \in 1..Len(paragraphs) |->
       [l \in 1..Len(paragraphs[j]) |->
          IF SrcMatches(paragraphs[j][l])
          THEN <<"![[", LastSegment(paragraphs[j][l])>>
          ELSE paragraphs[j][l]]]

\* replace_img_with_markdown, the URLs it hands to download_image, in order.
RECURSIVE ImgUrls(_)
ImgUrls(text) ==
    IF text = <<>> THEN <<>>
    ELSE (IF SrcMatches(Head(text)) THEN <<Tail(Head(text))>> ELSE <<>>)
         \o ImgUrls(Tail(text))

RECURSIVE Flatten(_)
Flatten(seqs) == IF seqs = <<>> THEN <<>> ELSE Head(seqs) \o Flatten(Tail(seqs))

\* str.replace(old, new): every non-overlapping occurrence, left to right.
\* old is a match of extract_img_paragraphs, hence never empty.
RECURSIVE Replace(_, _, _)
Replace(text, old, new) ==
    IF old = <<>> \/ Len(text) < Len(old) THEN text
    ELSE IF SubSeq(text, 1, Len(old)) = old
         THEN new \o Replace(SubSeq(text, Len(old) + 1, Len(text)), old, new)
         ELSE <<Head(text)>> \o Replace(Tail(text), old, new)

\* str.replace(old, new, 1): the first occurrence only.
RECURSIVE ReplaceFirst(_, _, _)
ReplaceFirst(text, old, new) ==
    IF old = <<>> \/ Len(text) < Len(old) THEN text
    ELSE IF SubSeq(text, 1, Len(old)) = old
         THEN new \o SubSeq(text, Len(old) + 1, Len(text))
         ELSE <<Head(text)>> \o ReplaceFirst(Tail(text), old, new)

\* A splice of the first fragment at its first position only.
update_body_first_match(body, old_paragraphs, new_paragraphs) ==
    IF old_paragraphs = <<>> \/ new_paragraphs = <<>> THEN body
    ELSE ReplaceFirst(body, Head(old_paragraphs), Head(new_paragraphs))

RECURSIVE update_body(_, _, _)
update_body(body, old_paragraphs, new_paragraphs) ==
    IF old_paragraphs = <<>> \/ new_paragraphs = <<>> THEN body
    ELSE update_body(Replace(body, Head(old_paragraphs), Head(new_paragraphs)),
                     Tail(old_paragraphs), Tail(new_paragraphs))

handle_images(body) ==
    LET img_paragraphs == extract_img_paragraphs(body)
        updated_paragraphs == replace_img_with_markdown(move_imgs_to_end(img_paragraphs))
    IN  update_body(body, img_paragraphs, updated_paragraphs)

\* ---- conversion of one post
\* The blocking steps save_post goes through for a post, in order: one
\* download_image per matched image tag of a Regular body, one download_photo
\* per photo of a Photo post; a photo whose "photo-url" is not a list makes
\* photo["photo-url"][0] raise KeyError.
PlanIgnoringPhotoset(post) ==
    IF post.type = "Regular" THEN
        LET urls == ImgUrls(Flatten(move_imgs_to_end(extract_img_paragraphs(post.body))))
        IN  [j \in 1..Len(urls) |-> [op |-> "image", url |-> urls[j]]]
    ELSE IF post.type = "Photo" THEN
        IF post.photoUrl.shape = "list"
        THEN <<[op |-> "photo", url |-> post.photoUrl.urls[1]]>>
        ELSE <<[op |-> "raise", url |-> <<>>]>>
    ELSE <<>>

Plan(post) ==
    IF post.type = "Regular" THEN
        LET urls == ImgUrls(Flatten(move_imgs_to_end(extract_img_paragraphs(post.body))))
        IN  [j \in 1..Len(urls) |-> [op |-> "image", url |-> urls[j]]]
    ELSE IF post.type = "Photo" THEN
        LET photos == IF post.photoset # <<>> THEN post.photoset ELSE <<post.photoUrl>>
        IN  [j \in 1..Len(photos) |->
               IF photos[j].shape = "list"
               THEN [op |-> "photo", url |-> photos[j].urls[1]]
               ELSE [op |-> "raise", url |-> <<>>]]
    ELSE <<>>

regular_post_to_markdown(post) ==
    <<<<"# ">> \o post.title, NL, NL>> \o handle_images(post.body) \o <<NL>> \o TagStr(post)

photo_post_to_markdown(post) ==
    LET plan == Plan(post)
    IN  Flatten([j \in 1..Len(plan) |-> << <<"![[", LastSegment(plan[j].url)>>, NL, NL >>])
        \o post.body \o <<NL>> \o TagStr(post)

chat_post_to_markdown(post) ==
    <<NL, <<"# ">> \o post.title, NL, NL>> \o post.body \o <<NL>> \o TagStr(post)

\* save_post with the default case converting the post as a conversation.
MdContentDefaultChat(post) ==
    TableRows(post) \o <<NL>> \o
    (CASE post.type = "Regular" -> regular_post_to_markdown(post)
       [] post.type = "Photo" -> photo_post_to_markdown(post)
       [] OTHER -> chat_post_to_markdown(post))

\* save_post: md_content.
MdContent(post) ==
    TableRows(post) \o <<NL>> \o
    (CASE post.type = "Regular" -> regular_post_to_markdown(post)
       [] post.type = "Photo" -> photo_post_to_markdown(post)
       [] post.type = "Conversation" -> chat_post_to_markdown(post)
       [] OTHER -> <<>>)

\* The posts the endpoint can serve, and save_post's plan and text for each.
Served ==
    UNION {{RemotePosts(Names[n])[j] : j \in 1..Len(RemotePosts(Names[n]))} :
              n \in 1..Len(Names)}

PlanOf == [post \in Served |-> Plan(post)]

MdContentOf == [post \in Served |-> MdContent(post)]

\* ---- what xmltodict makes of the <posts> element's <post> children
XmlPosts(posts) ==
    IF posts = <<>> THEN [kind |-> "absent", val |-> <<>>]
    ELSE IF Len(posts) = 1 THEN [kind |-> "dict", val |-> posts[1]]
    ELSE [kind |-> "list", val |-> posts]

\* Without the isinstance check a bare object yields no post record.
PostListUnwrapped(parsed) == IF parsed.kind = "dict" THEN <<>> ELSE parsed.val

\* process_response: a bare object is wrapped into a one-element list.
PostList(parsed) == IF parsed.kind = "dict" THEN <<parsed.val>> ELSE parsed.val

\* ------------------------------------------------------------------ state
VARIABLES
    schedPc,      \* where schedule_tasks is: "count", "counting", "wait",
                  \* "exiting" (leaving the with block), "returned", "raised"
    blogIdx,      \* index in self.names of the blog of the for loop
    futIdx,       \* index in futures of the future.result() loop
    schedExc,     \* the exception schedule_tasks is unwinding with, and its origin
    countCall,    \* the count query's HTTP call in flight
    totals,       \* per blog handled so far: whether its count query failed,
                  \* the total it returned, the exception it raised
    tasks,        \* futures: one record per submitted download_posts call
                  \* (got: the number of posts of its page response, -1
                  \* before a well-formed response has arrived)
    dirs,         \* directories created
    mdFiles,      \* Markdown files: path -> [post, content]
    attachments,  \* media files written (paths)
    gets,         \* media GETs issued: [post, k, url], the k-th of the post
    log,          \* log records
    hBody,        \* the argument of a call of handle_images on its own
    hResult       \* what that call returned and the downloads it made

vars == <<schedPc, blogIdx, futIdx, schedExc, countCall, totals, tasks, dirs,
          mdFiles, attachments, gets, log, hBody, hResult>>

\* handle_images has not been called.
NotApplied == [applied |-> FALSE, text |-> <<>>, downloads |-> <<>>]

NoCall == [active |-> FALSE, timeout |-> FALSE, server |-> "none"]

\* requests.get(..., timeout=settings.TIMEOUT) or requests.get(url): the remote
\* server either answers or stays silent.  A call with a timeout ends either
\* way, so which of the two the server does is left open ("either") until
\* the call ends.
Call(timeout, server) == [active |-> TRUE, timeout |-> timeout, server |-> server]

Servers(timeout) == IF timeout THEN {"either"} ELSE {"responds", "silent"}

\* How a call in flight can end.  A silent server ends a call only through
\* the call's timeout.
HttpOutcomes(call) ==
    CASE call.server = "either" -> {"ok", "http_error", "conn_error", "timeout"}
      [] call.server = "silent" -> {}
      [] OTHER -> {"ok", "http_error", "conn_error"}

\* requests.RequestException: raised by requests.get, or by raise_for_status.
IsRequestException(outcome) == outcome \in {"http_error", "conn_error", "timeout"}

NoExc == [exc |-> "none", origin |-> "none"]

Entry(level, msg, who) == [level |-> level, msg |-> msg, who |-> who]

NewTask(name, num, start) ==
    [name |-> name, num |-> num, start |-> start, st |-> "pending", pc |-> "-",
     got |-> -1, posts |-> <<>>, i |-> 0, k |-> 0, exc |-> "none", call |-> NoCall]

Init ==
    /\ schedPc = "count"
    /\ blogIdx = 1
    /\ futIdx = 1
    /\ schedExc = NoExc
    /\ countCall = NoCall
    /\ totals = <<>>
    /\ tasks = <<>>
    /\ dirs = {}
    /\ mdFiles = <<>>
    /\ attachments = {}
    /\ gets = {}
    /\ log = {}
    /\ hBody = <<>>
    /\ hResult = NotApplied

\* ------------------------------------------------------------ CrawlerScheduler
\* schedule_blog_download with the stop of the range off by one.
schedule_blog_download_inclusive(name, total) ==
    LET num == API_READ_NUM
        starts == Range(API_READ_START, total + 1, num)
    IN  [j \in 1..Len(starts) |-> NewTask(name, num, starts[j])]

\* schedule_blog_download: the futures it returns.
schedule_blog_download(name, total) ==
    LET num == API_READ_NUM
        starts == Range(API_READ_START, total, num)
    IN  [j \in 1..Len(starts) |-> NewTask(name, num, starts[j])]

\* The bodies a successful count response can carry; the totals reported are
\* none, one post, a full page, and a page and one post.
CountBodies ==
    {[kind |-> "total", total |-> n] : n \in {0, 1, API_READ_NUM, MaxTotal}}
    \cup {[kind |-> c, total |-> 0] :
            c \in {"bad_xml", "undecodable", "missing_total", "non_numeric"}}

\* get_total_post_count: what it does with a response.  ret is the value it
\* returns, exc the exception that leaves it ("none" if it returns).
CountResult(outcome, body) ==
    IF IsRequestException(outcome) THEN [ret |-> 0, exc |-> "none", logged |-> TRUE]
    ELSE CASE body.kind = "total" -> [ret |-> body.total, exc |-> "none", logged |-> FALSE]
           [] body.kind \in {"undecodable", "missing_total"} ->
                [ret |-> 0, exc |-> "none", logged |-> TRUE]
           [] body.kind = "bad_xml" -> [ret |-> 0, exc |-> "ExpatError", logged |-> FALSE]
           [] body.kind = "non_numeric" -> [ret |-> 0, exc |-> "ValueError", logged |-> FALSE]

\* schedule_tasks calls get_total_post_count, which issues its GET.
GetTotalPostCountCall ==
    /\ schedPc = "count"
    /\ \E server \in Servers(TRUE) : countCall' = Call(TRUE, server)
    /\ schedPc' = "counting"
    /\ UNCHANGED <<blogIdx, futIdx, schedExc, totals, tasks, dirs, mdFiles,
                   attachments, gets, log>>

\* The count response arrives; on a positive total the blog's page tasks are
\* submitted, and the for loop moves to the next blog.
GetTotalPostCountReturn ==
    /\ schedPc = "counting"
    /\ \E outcome \in HttpOutcomes(countCall) :
       \E body \in (IF outcome = "ok" THEN CountBodies ELSE {[kind |-> "none", total |-> 0]}) :
         LET name == Names[blogIdx]
             r == CountResult(outcome, body)
         IN  /\ countCall' = NoCall
             /\ totals' = Append(totals, [failed |-> outcome # "ok" \/ body.kind # "total",
                                          total |-> r.ret, exc |-> r.exc])
             /\ log' = IF r.logged
                       THEN log \cup {Entry("ERROR", "Failed to retrieve post count", name)}
                       ELSE log
             /\ IF r.exc # "none"
                THEN /\ schedExc' = [exc |-> r.exc, origin |-> "count"]
                     /\ schedPc' = "exiting"
                     /\ UNCHANGED <<blogIdx, tasks, dirs>>
                ELSE /\ schedExc' = schedExc
                     /\ blogIdx' = blogIdx + 1
                     /\ schedPc' = IF blogIdx + 1 > Len(Names) THEN "wait" ELSE "count"
                     /\ IF r.ret > 0
                        THEN /\ tasks' = tasks \o schedule_blog_download(name, r.ret)
                             /\ dirs' = dirs \cup {<<"results", name>>}
                        ELSE UNCHANGED <<tasks, dirs>>
    /\ UNCHANGED <<futIdx, mdFiles, attachments, gets>>

Finished(task) == task.st \in {"done", "raised"}

\* future.result() on the next future: returns once that task has finished,
\* re-raising what the task raised.
FutureResult ==
    /\ schedPc = "wait"
    /\ futIdx <= Len(tasks)
    /\ Finished(tasks[futIdx])
    /\ IF tasks[futIdx].st = "raised"
       THEN /\ schedExc' = [exc |-> tasks[futIdx].exc, origin |-> "task"]
            /\ schedPc' = "exiting"
            /\ UNCHANGED futIdx
       ELSE /\ futIdx' = futIdx + 1
            /\ UNCHANGED <<schedExc, schedPc>>
    /\ UNCHANGED <<blogIdx, countCall, totals, tasks, dirs, mdFiles, attachments,
                   gets, log>>

\* Every future has returned: the closing log line.
CompletedDownloading ==
    /\ schedPc = "wait"
    /\ futIdx > Len(tasks)
    /\ log' = log \cup {Entry("INFO", "Completed downloading all posts.", "")}
    /\ schedPc' = "exiting"
    /\ UNCHANGED <<blogIdx, futIdx, schedExc, countCall, totals, tasks, dirs,
                   mdFiles, attachments, gets>>

\* shutdown(wait=False): the with block is left at once.
ShutdownNoWait == TRUE

\* ThreadPoolExecutor.__exit__ is shutdown(wait=True): it joins the workers,
\* which first run every queued task.
ShutdownWait == \A t \in 1..Len(tasks) : Finished(tasks[t])

\* Leaving the with block, normally or with the exception being unwound.
ExecutorExit ==
    /\ schedPc = "exiting"
    /\ ShutdownWait
    /\ schedPc' = IF schedExc.exc = "none" THEN "returned" ELSE "raised"
    /\ UNCHANGED <<blogIdx, futIdx, schedExc, countCall, totals, tasks, dirs,
                   mdFiles, attachments, gets, log>>

\* -------------------------------------------------------------- DownloadWorker
Who(task) == <<task.name, task.start>>

\* An exception exc leaves the code running inside process_response or, for a
\* RequestException, inside the try of download_posts: the except clauses of
\* process_response (KeyError, UnicodeDecodeError) and download_posts
\* (requests.RequestException) log it and the task ends; anything else leaves
\* download_posts and is stored in the future.
Propagate(task, exc) ==
    IF exc \in {"KeyError", "UnicodeDecodeError", "RequestException"}
    THEN [task EXCEPT !.st = "done", !.pc = "-", !.call = NoCall]
    ELSE [task EXCEPT !.st = "raised", !.pc = "-", !.call = NoCall, !.exc = exc]

PropagateLog(task, exc) ==
    IF exc \in {"KeyError", "UnicodeDecodeError"}
    THEN {Entry("ERROR", "Error processing response", Who(task))}
    ELSE IF exc = "RequestException"
    THEN {Entry("ERROR", "Error fetching URL", Who(task))}
    ELSE {}

\* A worker thread of the pool takes the oldest queued task and runs
\* download_posts up to its GET.
WorkerStart(t) ==
    /\ tasks[t].st = "pending"
    /\ \A u \in 1..(t - 1) : tasks[u].st # "pending"
    /\ Cardinality({u \in 1..Len(tasks) : tasks[u].st = "running"}) < THREADS
    /\ \E server \in Servers(TRUE) :
         tasks' = [tasks EXCEPT ![t] = [@ EXCEPT !.st = "running", !.pc = "fetch",
                                                 !.call = Call(TRUE, server)]]
    /\ UNCHANGED <<schedPc, blogIdx, futIdx, schedExc, countCall, totals, dirs,
                   mdFiles, attachments, gets, log>>

\* The bodies a successful page response can carry.
\* "posts": the posts at the offset; "no_posts": well-formed, with no <post>.
PageBodies == {"posts", "no_posts", "bad_xml", "undecodable"}

\* The page response arrives: download_posts up to the first post of
\* process_response's loop.
PageResponse(t) ==
    /\ tasks[t].pc = "fetch"
    /\ \E outcome \in HttpOutcomes(tasks[t].call) :
       \E body \in (IF outcome = "ok" THEN PageBodies ELSE {"none"}) :
         LET task == tasks[t]
             exc == IF IsRequestException(outcome) THEN "RequestException"
                    ELSE IF body = "undecodable" THEN "UnicodeDecodeError"
                    ELSE IF body = "bad_xml" THEN "ExpatError"
                    ELSE "none"
             page == IF body = "no_posts" THEN <<>>
                     ELSE RemotePage(task.name, task.num, task.start)
             parsed == XmlPosts(page)
             posts == PostList(parsed)
         IN  IF exc # "none"
             THEN /\ tasks' = [tasks EXCEPT ![t] = Propagate(task, exc)]
                  /\ log' = log \cup PropagateLog(task, exc)
             ELSE IF parsed.kind = "absent"
             THEN /\ tasks' = [tasks EXCEPT ![t] = [@ EXCEPT !.st = "done", !.pc = "-",
                                                             !.call = NoCall, !.got = 0]]
                  /\ log' = log \cup {Entry("WARNING", "No posts found.", Who(task))}
             ELSE IF posts = <<>>
             THEN /\ tasks' = [tasks EXCEPT ![t] = [@ EXCEPT !.st = "done", !.pc = "-",
                                                             !.call = NoCall,
                                                             !.got = Len(page)]]
                  /\ log' = log
             ELSE /\ tasks' = [tasks EXCEPT ![t] = [@ EXCEPT !.pc = "post", !.posts = posts,
                                                             !.call = NoCall,
                                                             !.got = Len(page)]]
                  /\ log' = log
    /\ UNCHANGED <<schedPc, blogIdx, futIdx, schedExc, countCall, totals, dirs,
                   mdFiles, attachments, gets>>

\* The posts taken from the end of the list.
CurrentPostReversed(task) == task.posts[Len(task.posts) - task.i]

\* The post save_post is working on.
CurrentPost(task) == task.posts[task.i + 1]

\* The file write entered without waiting for the conversion's downloads.
EnterStepWriteAtOnce(task, k, server) ==
    [task EXCEPT !.pc = "write", !.k = 0, !.call = NoCall]

\* save_post moves on to step k of the post's plan: past the last step it is
\* at the file write; a "raise" step raises KeyError; otherwise the step's GET
\* is issued (download_image with the timeout, download_photo without).
EnterStep(task, k, server) ==
    LET plan == PlanOf[CurrentPost(task)]
    IN  IF k > Len(plan) THEN [task EXCEPT !.pc = "write", !.k = 0, !.call = NoCall]
        ELSE IF plan[k].op = "raise" THEN Propagate(task, "KeyError")
        ELSE [task EXCEPT !.pc = "media", !.k = k,
                          !.call = Call(plan[k].op = "image", server)]

\* Whether step k of the post's plan is a GET with the timeout.
StepHasTimeout(task, k) ==
    LET plan == PlanOf[CurrentPost(task)]
    IN  ~(k <= Len(plan) /\ plan[k].op = "photo")

EnterStepLog(task, k) ==
    LET plan == PlanOf[CurrentPost(task)]
    IN  IF k <= Len(plan) /\ plan[k].op = "raise" THEN PropagateLog(task, "KeyError")
        ELSE {}

EnterStepGets(task, k) ==
    LET plan == PlanOf[CurrentPost(task)]
    IN  IF k <= Len(plan) /\ plan[k].op # "raise"
        THEN {[post |-> CurrentPost(task).id, k |-> k, url |-> plan[k].url]}
        ELSE {}

\* process_response calls save_post for the next post: file name, table and
\* the dispatch on @type, up to the post's first download or its file write.
SavePost(t) ==
    /\ tasks[t].pc = "post"
    /\ LET task == tasks[t]
           post == CurrentPost(task)
       IN  /\ \E server \in Servers(StepHasTimeout(task, 1)) :
                tasks' = [tasks EXCEPT ![t] = EnterStep(task, 1, server)]
           /\ dirs' = IF post.type \in {"Regular", "Photo"}
                      THEN dirs \cup {AttachmentDir(task.name)}
                      ELSE dirs
           /\ gets' = gets \cup EnterStepGets(task, 1)
           /\ log' = log \cup EnterStepLog(task, 1)
                         \cup (IF post.type \notin {"Regular", "Photo", "Conversation"}
                               THEN {Entry("ERROR", "Unknown post type", post.id)}
                               ELSE {})
    /\ UNCHANGED <<schedPc, blogIdx, futIdx, schedExc, countCall, totals, mdFiles,
                   attachments>>

\* The response to a media GET arrives: the rest of download_image or
\* download_photo, then on to the post's next step.
MediaResponse(t) ==
    /\ tasks[t].pc = "media"
    /\ \E outcome \in HttpOutcomes(tasks[t].call) :
       \E disk \in (IF outcome = "ok" THEN {"ok", "oserror"} ELSE {"none"}) :
       \E server \in Servers(StepHasTimeout(tasks[t], tasks[t].k + 1)) :
         LET task == tasks[t]
             post == CurrentPost(task)
             step == PlanOf[post][task.k]
             file == AttachmentDir(task.name) \o <<LastSegment(step.url)>>
             \* download_image lets the exception of requests.get through;
             \* download_photo catches it
             exc == IF disk = "oserror" THEN "OSError"
                    ELSE IF step.op = "image" /\ outcome \in {"conn_error", "timeout"}
                    THEN "RequestException"
                    ELSE "none"
             failed == IF step.op = "image"
                       THEN {Entry("ERROR", "Failed to download image", post.id)}
                       ELSE {Entry("ERROR", "Failed to download", post.id)}
         IN  IF exc # "none"
             THEN /\ tasks' = [tasks EXCEPT ![t] = Propagate(task, exc)]
                  /\ log' = log \cup PropagateLog(task, exc)
                  /\ UNCHANGED <<attachments, gets>>
             ELSE /\ tasks' = [tasks EXCEPT ![t] = EnterStep(task, task.k + 1, server)]
                  /\ attachments' = IF outcome = "ok" THEN attachments \cup {file}
                                    ELSE attachments
                  /\ gets' = gets \cup EnterStepGets(task, task.k + 1)
                  /\ log' = log \cup (IF outcome = "ok"
                                      THEN {Entry("INFO", "Downloaded", file)}
                                      ELSE failed)
                                \cup EnterStepLog(task, task.k + 1)
    /\ UNCHANGED <<schedPc, blogIdx, futIdx, schedExc, countCall, totals, dirs,
                   mdFiles>>

\* save_post writes the Markdown file (an IOError is logged), and
\* process_response goes on to the next post or returns.
WriteFile(t) ==
    /\ tasks[t].pc = "write"
    /\ \E disk \in {"ok", "ioerror"} :
         LET task == tasks[t]
             post == CurrentPost(task)
             file_path == MdPath(task.name, post)
         IN  /\ mdFiles' = IF disk = "ok"
                           THEN [q \in DOMAIN mdFiles \cup {file_path} |->
                                   IF q = file_path
                                   THEN [post |-> post.id, content |-> MdContentOf[post]]
                                   ELSE mdFiles[q]]
                           ELSE mdFiles
             /\ log' = IF disk = "ok" THEN log
                       ELSE log \cup {Entry("ERROR", "Failed to save post", post.id)}
             /\ tasks' = [tasks EXCEPT ![t] =
                            IF task.i + 1 = Len(task.posts)
                            THEN [@ EXCEPT !.i = task.i + 1, !.st = "done", !.pc = "-"]
                            ELSE [@ EXCEPT !.i = task.i + 1, !.pc = "post"]]
    /\ UNCHANGED <<schedPc, blogIdx, futIdx, schedExc, countCall, totals, dirs,
                   attachments, gets>>

\* A run of schedule_tasks leaves the stand-alone call of handle_images alone.
Next ==
    \/ GetTotalPostCountCall /\ UNCHANGED <<hBody, hResult>>
    \/ GetTotalPostCountReturn /\ UNCHANGED <<hBody, hResult>>
    \/ FutureResult /\ UNCHANGED <<hBody, hResult>>
    \/ CompletedDownloading /\ UNCHANGED <<hBody, hResult>>
    \/ ExecutorExit /\ UNCHANGED <<hBody, hResult>>
    \/ \E t \in 1..Len(tasks) : WorkerStart(t) /\ UNCHANGED <<hBody, hResult>>
    \/ \E t \in 1..Len(tasks) : PageResponse(t) /\ UNCHANGED <<hBody, hResult>>
    \/ \E t \in 1..Len(tasks) : SavePost(t) /\ UNCHANGED <<hBody, hResult>>
    \/ \E t \in 1..Len(tasks) : MediaResponse(t) /\ UNCHANGED <<hBody, hResult>>
    \/ \E t \in 1..Len(tasks) : WriteFile(t) /\ UNCHANGED <<hBody, hResult>>

Spec == Init /\ [][Next]_vars

\* ---------------------------------------------- handle_images on its own
\* The tokens generated bodies are made of.
Alphabet == {<<"<p>">>, <<"</p>">>, Img("dog.png"), <<"a">>, <<" ">>}

\* The body of the example "Hello <img> world".
HelloBody ==
    << <<"<p>">>, <<"Hello">>, <<" ">>, Img("cat.png"), <<" ">>, <<"world">>, <<"</p>">> >>

\* Every body of at most MaxBodyLen tokens, and the example.
Bodies == UNION {[1..m -> Alphabet] : m \in 0..MaxBodyLen} \cup {HelloBody}

InitTransform ==
    /\ Init!1 /\ Init!2 /\ Init!3 /\ Init!4 /\ Init!5 /\ Init!6
    /\ Init!7 /\ Init!8 /\ Init!9 /\ Init!10 /\ Init!11 /\ Init!12
    /\ hBody \in Bodies
    /\ hResult = NotApplied

\* handle_images(body, target_dir), every download_image call of it returning.
HandleImages ==
    /\ ~hResult.applied
    /\ hResult' = [applied |-> TRUE,
                   text |-> handle_images(hBody),
                   downloads |-> ImgUrls(Flatten(move_imgs_to_end(
                                    extract_img_paragraphs(hBody))))]
    /\ UNCHANGED <<schedPc, blogIdx, futIdx, schedExc, countCall, totals, tasks,
                   dirs, mdFiles, attachments, gets, log, hBody>>

NextTransform == HandleImages

SpecTransform == InitTransform /\ [][NextTransform]_vars

\* ---------------------------------------------------------------- properties
Ended == schedPc \in {"returned", "raised"}

TasksOf(name) == {t \in 1..Len(tasks) : tasks[t].name = name}

\* C1: a failure raised inside a page task shows up only in the log: when
\* schedule_tasks has ended without a count query raising, it has returned
\* (no exception escaped it), every submitted task ran to completion, and
\* "Completed downloading all posts." was logged.
C1_TaskFailureOnlyLogged ==
    (Ended /\ schedExc.origin # "count")
        => /\ schedPc = "returned"
           /\ \A t \in 1..Len(tasks) : Finished(tasks[t])
           /\ Entry("INFO", "Completed downloading all posts.", "") \in log

\* The count query of blog b returned zero or failed.
CountZeroOrFailed(b) == totals[b].failed \/ totals[b].total = 0

\* C2: a blog whose count query returns zero or fails in any way is skipped:
\* no page task is submitted for it, nothing is created under results/<blog>/,
\* and schedule_tasks goes on to the next blog (the query raises nothing).
C2_ZeroOrFailedCountSkipsBlog ==
    \A b \in 1..Len(totals) :
        CountZeroOrFailed(b)
            => /\ TasksOf(Names[b]) = {}
               /\ \A d \in dirs : d[2] # Names[b]
               /\ \A q \in DOMAIN mdFiles : q[2] # Names[b]
               /\ \A f \in attachments : f[2] # Names[b]
               /\ totals[b].exc = "none"

\* C3: for a blog with total > 0, the submitted tasks' offsets are multiples
\* of the page size below total, no offset is submitted twice, every index of
\* [0, total) lies in exactly one task's page, and every task asks for
\* num = API_READ_NUM.
C3_OffsetsCoverTotal ==
    \A b \in 1..Len(totals) :
        (totals[b].exc = "none" /\ totals[b].total > 0)
            => LET T == TasksOf(Names[b])
                   total == totals[b].total
               IN  /\ \A t \in T : /\ tasks[t].start >= 0
                                   /\ tasks[t].start < total
                                   /\ tasks[t].start % API_READ_NUM = 0
                                   /\ tasks[t].num = API_READ_NUM
                   /\ \A t, u \in T : tasks[t].start = tasks[u].start => t = u
                   /\ \A j \in 0..(total - 1) :
                        Cardinality({t \in T : /\ tasks[t].start <= j
                                               /\ j < tasks[t].start + tasks[t].num}) = 1

\* A blog whose total is not a multiple of the page size got two or more tasks.
C3_Witness ==
    \E b \in 1..Len(totals) :
        /\ totals[b].total > 0
        /\ totals[b].total % API_READ_NUM # 0
        /\ Cardinality(TasksOf(Names[b])) >= 2

\* C4: malformed XML, missing keys and undecodable bytes of a page response
\* never leave download_posts: no future holds such an exception.
C4_ParseFailureCaught ==
    \A t \in 1..Len(tasks) :
        tasks[t].exc \notin {"ExpatError", "KeyError", "UnicodeDecodeError"}

\* C5: a failure while converting or saving one post, or downloading one of
\* its media items, does not stop the page: when the task has ended, no post
\* after the one being worked on was left unprocessed.
C5_LaterPostsStillSaved ==
    \A t \in 1..Len(tasks) :
        Finished(tasks[t]) => tasks[t].i + 1 >= Len(tasks[t].posts)

\* C6: every HTTP call in flight (count query, page fetch, image download,
\* photo download) carries the timeout.
C6_EveryCallCarriesTimeout ==
    /\ countCall.active => countCall.timeout
    /\ \A t \in 1..Len(tasks) : tasks[t].call.active => tasks[t].call.timeout

\* C7: schedule_tasks has not ended, by returning or by raising, while a
\* submitted task is pending or running.
C7_EndsOnlyAfterAllTasks ==
    Ended => \A t \in 1..Len(tasks) : Finished(tasks[t])

\* schedule_tasks was left by an exception of a later count query after page
\* tasks had been submitted.
C7_Witness ==
    /\ schedPc = "raised"
    /\ schedExc.origin = "count"
    /\ Len(tasks) >= 2

\* C8: no Markdown file written for one post is overwritten for another post.
C8_NoFileOverwrittenByOtherPost ==
    [][\A q \in DOMAIN mdFiles : mdFiles'[q].post = mdFiles[q].post]_vars

\* C9: a Markdown file never holds a reference naming a media file that was
\* not written.
C9_ReferencesNameWrittenFiles ==
    \A q \in DOMAIN mdFiles :
        LET content == mdFiles[q].content
        IN  \A j \in 1..Len(content) :
              content[j][1] = "![["
                  => (AttachmentDir(q[2]) \o <<content[j][2]>>) \in attachments

KnownTypes == {"Regular", "Photo", "Conversation"}

\* C10: for a post whose @type is not Regular, Photo or Conversation, once
\* save_post has returned: the error is logged, no media download was issued
\* for the post, the file write was made (the file exists unless the write
\* failed and was logged), and the file written for the post holds the
\* metadata table (header, separator, and the url-with-slug, type, date-gmt
\* and date rows) ended by its line break, with nothing after it.
C10_UnknownTypeTableOnly ==
    \A t \in 1..Len(tasks) :
      \A j \in 1..tasks[t].i :
        LET post == tasks[t].posts[j]
            path == MdPath(tasks[t].name, post)
        IN  post.type \notin KnownTypes
              => /\ Entry("ERROR", "Unknown post type", post.id) \in log
                 /\ \A g \in gets : g.post # post.id
                 /\ \/ path \in DOMAIN mdFiles
                    \/ Entry("ERROR", "Failed to save post", post.id) \in log
                 /\ (path \in DOMAIN mdFiles /\ mdFiles[path].post = post.id)
                      => mdFiles[path].content =
                           << <<"| key | value |">>, <<"| --- | ----- |">>,
                              <<"|", "url-with-slug", "|">> \o post.urlWithSlug \o <<"|">>,
                              <<"|", "type", "|", post.type, "|">>,
                              <<"|", "date-gmt", "|">> \o post.dateGmt \o <<"|">>,
                              <<"|", "date", "|">> \o post.date \o <<"|">>,
                              NL >>

\* The file of a post of unknown type is on disk.
C10_Witness ==
    \E t \in 1..Len(tasks) :
      \E j \in 1..tasks[t].i :
        LET post == tasks[t].posts[j]
            path == MdPath(tasks[t].name, post)
        IN  /\ post.type \notin KnownTypes
            /\ path \in DOMAIN mdFiles
            /\ mdFiles[path].post = post.id

Running == {t \in 1..Len(tasks) : tasks[t].st = "running"}

\* The task is inside an HTTP call that can never end.
Hung(task) == task.call.active /\ HttpOutcomes(task.call) = {}

\* C15: at every moment at most THREADS page tasks are executing, and every
\* task waiting in the pool is eventually started: while a task waits, a
\* worker is free or an executing task can still go on (a task has finitely
\* many steps, so a waiting task is started unless every worker is held by a
\* task that never ends).
C15_BoundedAndEventuallyStarted ==
    /\ Cardinality(Running) <= THREADS
    /\ (\E t \in 1..Len(tasks) : tasks[t].st = "pending")
         => \/ Cardinality(Running) < THREADS
            \/ \E u \in Running : ~Hung(tasks[u])

\* The part of C15 that bounds the tasks executing at once.
C15_AtMostThreadsRunning == Cardinality(Running) <= THREADS

\* C11: for a Photo post that save_post has finished, with n the number of
\* photos of its photoset (1 for a post without photoset): exactly n downloads
\* were issued, the k-th for the first photo-url of the k-th photo; media
\* files lie in attachments/; and the file written for the post holds, after
\* the table, n references ![[<last segment of that URL>]] in photoset order,
\* then the caption, then the hashtag line.
C11_PhotoPost ==
    \A t \in 1..Len(tasks) :
      \A j \in 1..tasks[t].i :
        LET post == tasks[t].posts[j]
            path == MdPath(tasks[t].name, post)
            photos == IF post.photoset # <<>> THEN post.photoset ELSE <<post.photoUrl>>
            n == Len(photos)
            mine == {g \in gets : g.post = post.id}
            refs == Flatten([k \in 1..n |->
                       << <<"![[", photos[k].urls[1][Len(photos[k].urls[1])]>>, NL, NL >>])
            hashtags == [k \in 1..Len(post.tag) |-> <<"#", post.tag[k]>>]
        IN  post.type = "Photo"
              => /\ Cardinality(mine) = n
                 /\ \A k \in 1..n :
                      [post |-> post.id, k |-> k, url |-> photos[k].urls[1]] \in mine
                 /\ \A f \in attachments : Len(f) = 4 /\ f[3] = "attachments"
                 /\ (path \in DOMAIN mdFiles /\ mdFiles[path].post = post.id)
                      => SubSeq(mdFiles[path].content, 8, Len(mdFiles[path].content))
                           = refs \o post.body \o <<NL, NL>> \o hashtags

\* The file of a Photo post with a photoset of two or more photos is on disk.
C11_Witness ==
    \E t \in 1..Len(tasks) :
      \E j \in 1..tasks[t].i :
        LET post == tasks[t].posts[j]
            path == MdPath(tasks[t].name, post)
        IN  /\ post.type = "Photo"
            /\ Len(post.photoset) >= 2
            /\ path \in DOMAIN mdFiles
            /\ mdFiles[path].post = post.id

\* ---- claims about one page task
OwnFile(task, post) ==
    /\ MdPath(task.name, post) \in DOMAIN mdFiles
    /\ mdFiles[MdPath(task.name, post)].post = post.id

\* Something of the run shows that save_post has begun on the post.
Begun(post) ==
    \/ \E g \in gets : g.post = post.id
    \/ \E msg \in {"Unknown post type", "Failed to download image",
                    "Failed to download", "Failed to save post"} :
          Entry("ERROR", msg, post.id) \in log
    \/ \E q \in DOMAIN mdFiles : mdFiles[q].post = post.id

\* C16: within one page task, once anything shows that the save of a post
\* has begun, every post before it in the parsed list has had its save
\* finished: its file is on disk or its failed write is logged.
C16_PostsSavedInOrder ==
    \A t \in 1..Len(tasks) :
      \A j \in 1..Len(tasks[t].posts) :
        Begun(tasks[t].posts[j])
          => \A l \in 1..(j - 1) :
               /\ l <= tasks[t].i
               /\ \/ MdPath(tasks[t].name, tasks[t].posts[l]) \in DOMAIN mdFiles
                  \/ Entry("ERROR", "Failed to save post", tasks[t].posts[l].id) \in log

\* The second post of a page is being downloaded for, the first one is saved.
C16_Witness ==
    \E t \in 1..Len(tasks) :
      /\ tasks[t].i = 1
      /\ tasks[t].pc = "media"
      /\ OwnFile(tasks[t], tasks[t].posts[1])

TaskErrors(task) ==
    {Entry("ERROR", msg, Who(task)) :
        msg \in {"Error processing response", "Error fetching URL"}} \cap log

\* C17: a page that came back with fewer posts than asked for is taken as it
\* is. With no post the task ends at once, "No posts found." is a warning and
\* nothing is raised or logged as an error. With one post or more, the posts
\* to save are exactly the posts of the page, a single one included, and each
\* is saved at most once; the task ends before the last of them only when the
\* conversion of a post with downloads or a malformed photo raised.
C17_ShortPageHandled ==
    \A t \in 1..Len(tasks) :
      LET task == tasks[t]
      IN  (task.got >= 0 /\ task.got < task.num)
            => /\ task.got = 0
                    => /\ task.st = "done"
                       /\ task.i = 0
                       /\ task.exc = "none"
                       /\ TaskErrors(task) = {}
                       /\ Entry("WARNING", "No posts found.", Who(task)) \in log
               /\ task.got >= 1
                    => /\ task.posts = RemotePage(task.name, task.num, task.start)
                       /\ Len(task.posts) = task.got
                       /\ task.i <= task.got
               /\ (task.got >= 1 /\ Finished(task) /\ task.i < task.got)
                    => /\ task.exc # "none" \/ TaskErrors(task) # {}
                       /\ PlanOf[task.posts[task.i + 1]] # <<>>
               /\ (task.got >= 1 /\ Finished(task) /\ task.i = task.got)
                    => task.st = "done" /\ task.exc = "none" /\ TaskErrors(task) = {}

\* One task has saved the single post of its page, another has ended on a
\* page without posts.
C17_Witness ==
    /\ \E t \in 1..Len(tasks) :
          /\ tasks[t].got = 1
          /\ tasks[t].num > 1
          /\ tasks[t].st = "done"
          /\ tasks[t].i = 1
          /\ OwnFile(tasks[t], tasks[t].posts[1])
    /\ \E t \in 1..Len(tasks) : tasks[t].got = 0 /\ tasks[t].st = "done"

\* The file of a post is on disk only when save_post is through with the
\* post and every download of its conversion was issued; a task that ended
\* inside a post has not written that post's file.
WrittenAfterConversion ==
    \A t \in 1..Len(tasks) :
      LET task == tasks[t]
      IN  /\ \A j \in 1..Len(task.posts) :
                OwnFile(task, task.posts[j])
                  => /\ j <= task.i
                     /\ LET plan == PlanOf[task.posts[j]]
                        IN  \A k \in 1..Len(plan) :
                              /\ plan[k].op # "raise"
                              /\ [post |-> task.posts[j].id, k |-> k,
                                  url |-> plan[k].url] \in gets
          /\ (Finished(task) /\ task.i < Len(task.posts))
                => ~OwnFile(task, task.posts[task.i + 1])

\* C19: a post's file is on disk only after its conversion, downloads
\* included, has returned, the file of a post whose conversion raised is
\* not written, and every media file logged as downloaded is on disk,
\* whatever happened to its post afterwards.
C19_WriteOnlyAfterConversion ==
    /\ WrittenAfterConversion
    /\ \A e \in log : e.msg = "Downloaded" => e.who \in attachments

\* A task has ended inside a post whose first download is on disk; the post
\* has no file.
C19_Witness ==
    \E t \in 1..Len(tasks) :
      LET task == tasks[t]
      IN  /\ Finished(task)
          /\ task.i < Len(task.posts)
          /\ Len(PlanOf[task.posts[task.i + 1]]) >= 2
          /\ Entry("INFO", "Downloaded",
                   AttachmentDir(task.name)
                     \o <<LastSegment(PlanOf[task.posts[task.i + 1]][1].url)>>) \in log
          /\ MdPath(task.name, task.posts[task.i + 1]) \notin DOMAIN mdFiles

\* ---- claims about handle_images, checked under SpecTransform
Occurs(text, frag) ==
    \E s \in 1..(Len(text) - Len(frag) + 1) : SubSeq(text, s, s + Len(frag) - 1) = frag

Occurrences(text, frag) ==
    Cardinality({s \in 1..(Len(text) - Len(frag) + 1) :
                    SubSeq(text, s, s + Len(frag) - 1) = frag})

Count(text, head) == Cardinality({j \in 1..Len(text) : text[j][1] = head})

HasImg(text) == \E j \in 1..Len(text) : IsImg(text[j])

\* C12, as stated: for the body <p>Hello <img src="https://x/y/cat.png"> world</p>
\* the returned text contains "Hello world" (one blank between the words), a
\* blank line and ![[cat.png]], and exactly one download, of
\* https://x/y/cat.png, is triggered.
C12_HelloWorldThenReference ==
    (hResult.applied /\ hBody = HelloBody)
      => /\ Occurs(hResult.text, << <<"Hello">>, <<" ">>, <<"world">> >>)
         /\ Occurs(hResult.text, << NL, NL, <<"![[", "cat.png">> >>)
         /\ hResult.downloads = <<Url("cat.png")>>

\* C12, amended: for that body the returned text is exactly
\* <p>Hello  world</p> (both blanks around the removed tag are kept, and so
\* are the paragraph tags), then a blank line, then ![[cat.png]]; exactly one
\* download, of https://x/y/cat.png, is triggered.
C12_HelloExample ==
    (hResult.applied /\ hBody = HelloBody)
      => /\ hResult.text = << <<"<p>">>, <<"Hello">>, <<" ">>, <<" ">>, <<"world">>,
                              <<"</p>">>, NL, NL, <<"![[", "cat.png">> >>
         /\ hResult.downloads = <<Url("cat.png")>>

C12_Witness == hResult.applied /\ hBody = HelloBody

\* Paragraphs of body whose only content is image tags, as <<first, last>> indices.
ImageOnlyParagraphs(body) ==
    {se \in (1..Len(body)) \X (1..Len(body)) :
        /\ se[1] + 1 < se[2]
        /\ body[se[1]] = <<"<p>">>
        /\ body[se[2]] = <<"</p>">>
        /\ \A j \in (se[1] + 1)..(se[2] - 1) : IsImg(body[j])}

\* Paragraph tags of body open and close in turn, none nested or left open.
WellFormed(body) ==
    LET ptags == {j \in 1..Len(body) : body[j][1] \in {"<p>", "</p>"}}
        before(j) == Cardinality({l \in ptags : l < j})
    IN  /\ Cardinality(ptags) % 2 = 0
        /\ \A j \in ptags : (body[j][1] = "<p>") <=> (before(j) % 2 = 0)

\* C13: in a body of well-formed paragraphs, every paragraph whose only
\* content is image tags is replaced as a whole by a blank line and its
\* ![[filename]] references joined by newlines: none of its <p> or </p> tags
\* is left in the returned text.
C13_ImageOnlyParagraphLeavesNoTags ==
    (hResult.applied /\ WellFormed(hBody))
      => /\ \A se \in ImageOnlyParagraphs(hBody) :
              Occurs(hResult.text,
                     <<NL, NL>> \o JoinLines([j \in 1..(se[2] - se[1] - 1) |->
                                    <<"![[", LastSegment(hBody[se[1] + j])>>]))
         /\ Count(hResult.text, "<p>")
              <= Count(hBody, "<p>") - Cardinality(ImageOnlyParagraphs(hBody))
         /\ Count(hResult.text, "</p>")
              <= Count(hBody, "</p>") - Cardinality(ImageOnlyParagraphs(hBody))

\* C14: for a body without image tag, handle_images returns the body
\* unchanged and triggers no download, and so does applying it again.
C14_NoImageBodyUnchanged ==
    (hResult.applied /\ ~HasImg(hBody))
      => /\ hResult.text = hBody
         /\ hResult.downloads = <<>>
         /\ handle_images(hResult.text) = hBody

\* handle_images has run on a body that holds a paragraph but no image tag.
C14_Witness ==
    /\ hResult.applied
    /\ ~HasImg(hBody)
    /\ extract_paragraphs(hBody) # <<>>

\* C18: after handle_images no extracted original fragment occurs in the
\* returned body, and a fragment extracted several times has its transformed
\* fragment in the returned body at least as many times.
C18_EveryOccurrenceReplaced ==
    hResult.applied
      => LET old == extract_img_paragraphs(hBody)
             new == replace_img_with_markdown(move_imgs_to_end(old))
         IN  \A j \in 1..Len(old) :
               /\ ~Occurs(hResult.text, old[j])
               /\ Occurrences(hResult.text, new[j])
                    >= Cardinality({l \in 1..Len(old) : old[l] = old[j]})

\* handle_images has run on a body with two byte-identical image paragraphs.
C18_Witness ==
    /\ hResult.applied
    /\ \E j, l \in 1..Len(extract_img_paragraphs(hBody)) :
          j # l /\ extract_img_paragraphs(hBody)[j] = extract_img_paragraphs(hBody)[l]

====
